---- MODULE Spec2Model ----
(***************************************************************************)
(* Model of the panoramic view registry of ai_filmmaking:                  *)
(* EnvironmentManager (src/ai_filmmaking/environment_manager.py).          *)
(*                                                                         *)
(* Numbers.  Angles and fields of view are Python floats.  The model keeps *)
(* them on the grid of half degrees, counted in half-degree units, where   *)
(* float addition, subtraction, halving and % are exact.  One float off    *)
(* the grid is modelled as well: a negative angle so small that adding 360 *)
(* to it rounds to 360.0 (for instance -1e-20), because Python's float %   *)
(* leaves the range [0, 360) exactly there.                                *)
(***************************************************************************)
EXTENDS Integers, Sequences, FiniteSets, TLC

\* The modulus of every normalisation: "% 360".
Circle == 360

\* The divisor of "field_of_view / 2"; one degree is Unit grid units, so that
\* half a field of view of whole degrees stays on the grid.
Unit == 2

\* Input angles are taken up to MaxTurns full turns below and above [0, 360).
MaxTurns == 1

\* The workers sharing a registry make at most MaxCalls calls between them.
MaxCalls == 3

Deg(d) == d * Unit

Full == Deg(Circle)

----------------------------------------------------------------------------
\* Floats: n grid units plus eps times a value below every rounding step.

F(n) == [n |-> n, eps |-> 0]

NegTiny == [n |-> 0, eps |-> -1]

\* x - h and x + h for a float x and a grid number h: a tiny x is absorbed by
\* rounding unless h is zero.
FloatAdd(x, h) ==
    IF x.n + h = 0 THEN [n |-> 0, eps |-> IF h = 0 THEN x.eps ELSE 0]
    ELSE F(x.n + h)

\* Python's x % 360 for a float x: fmod, then 360 is added to a negative
\* remainder; for a negative tiny x the sum rounds to 360.0 itself.
PyMod360(x) ==
    IF x.n = 0 /\ x.eps < 0 THEN Full ELSE x.n % Full

----------------------------------------------------------------------------
\* Inputs of the calls.

Names == {"Alice", "Bob"}

\* The second scene id is also a character's name: the two dicts have their
\* own keys.
Scenes == {"scene_1", "Bob"}

Turns == (0 - MaxTurns) .. MaxTurns

Wound(d) == {F(Deg(d) + k * Full) : k \in Turns}

\* The arguments of register_character_position: an angle and a depth, the
\* depth in tenths (the default is 1.0, the test registers 0.6).
CharacterInputs ==
    {<<F(Deg(10)), 10>>, <<F(Deg(30)), 10>>, <<F(Deg(60)), 10>>,
     <<F(Deg(90)), 10>>, <<F(Deg(121)), 10>>, <<F(Deg(180)), 6>>,
     <<F(Deg(340)), 10>>, <<NegTiny, 10>>}
    \cup {<<a, 6>> : a \in Wound(340)}

\* The arguments of register_camera_angle: an angle and a field of view.
CameraInputs ==
    {<<a, f>> : a \in {F(Deg(90)), NegTiny} \cup Wound(0), f \in {Deg(60), Deg(360)}}
    \cup {<<F(Deg(90)), Deg(0)>>}

----------------------------------------------------------------------------
\* character_positions is a dict that is iterated: the sequence of its items
\* in insertion order, each item the key with the fields of its value.

Keys(d) == {d[i].name : i \in 1 .. Len(d)}

IndexOf(d, k) == CHOOSE i \in 1 .. Len(d) : d[i].name = k

\* d[k] = value: a present key keeps its place, a new key goes last.
DictSetFirstWins(d, k, angle, depth) ==
    IF k \in Keys(d) THEN d
    ELSE Append(d, [name |-> k, angle |-> angle, depth |-> depth])

DictSetOnly(d, k, angle, depth) ==
    <<[name |-> k, angle |-> angle, depth |-> depth]>>

DictSetMoveToEnd(d, k, angle, depth) ==
    Append(SelectSeq(d, LAMBDA item : item.name # k),
           [name |-> k, angle |-> angle, depth |-> depth])

DictSetAppend(d, k, angle, depth) ==
    Append(d, [name |-> k, angle |-> angle, depth |-> depth])

DictSet(d, k, angle, depth) ==
    IF k \in Keys(d)
    THEN [d EXCEPT ![IndexOf(d, k)] = [name |-> k, angle |-> angle, depth |-> depth]]
    ELSE Append(d, [name |-> k, angle |-> angle, depth |-> depth])

----------------------------------------------------------------------------
VARIABLES
    character_positions,  \* self.character_positions
    camera_angles,        \* self.camera_angles: scene id -> record
    call,                 \* the call made last, with its arguments
    ret,                  \* what that call returned
    wrote,                \* the file that call wrote
    lock,                 \* the worker holding the external lock, or "free"
    pc,                   \* where each worker is: idle, locked, called
    log,                  \* the calls made under the lock, in lock order
    quality_scores        \* QualityChecker.quality_scores: scene name -> assessment

vars ==
    <<character_positions, camera_angles, call, ret, wrote, lock, pc, log,
      quality_scores>>

Workers == {"w1", "w2"}

\* A single owner uses the registry: no lock is taken, and the registry
\* touches no other object.
SingleOwner == UNCHANGED <<lock, pc, log, quality_scores>>

None == [kind |-> "None", names |-> <<>>]

List(names) == [kind |-> "list", names |-> names]

\* A returned path and a raised exception; names holds the path or the
\* exception's type.
Path(p) == [kind |-> "path", names |-> <<p>>]

Raise(e) == [kind |-> "raise", names |-> <<e>>]

NoFile == [kind |-> "none"]

\* existed: the key was in the dict when the call was made; again: the call
\* repeats the call before it, same method and same arguments.
Call(op, id, angle, arg) ==
    [op |-> op, id |-> id, angle |-> angle, arg |-> arg,
     existed |-> IF op = "register_character_position"
                 THEN id \in Keys(character_positions)
                 ELSE id \in DOMAIN camera_angles,
     again |-> call.op = op /\ call.id = id /\ call.angle = angle /\ call.arg = arg]

Init ==
    /\ character_positions = <<>>
    /\ camera_angles = <<>>
    /\ call = [op |-> "__init__", id |-> "", angle |-> F(0), arg |-> 0,
               existed |-> FALSE, again |-> FALSE]
    /\ ret = None
    /\ wrote = NoFile
    /\ lock = "free"
    /\ pc = [w \in Workers |-> "idle"]
    /\ log = <<>>
    /\ quality_scores = <<>>

----------------------------------------------------------------------------
\* register_character_position

NormalizeAngle(angle_degrees) == PyMod360(angle_degrees)

register_character_position(character_name, angle_degrees, depth) ==
    /\ character_positions' =
           DictSet(character_positions, character_name,
                   NormalizeAngle(angle_degrees), depth)
    /\ call' = Call("register_character_position", character_name, angle_degrees, depth)
    /\ ret' = None
    /\ UNCHANGED camera_angles

----------------------------------------------------------------------------
\* register_camera_angle

VisibleStartNoWrap(angle, field_of_view) ==
    FloatAdd(angle, 0 - (field_of_view \div Unit)).n

VisibleStart(angle, field_of_view) ==
    PyMod360(FloatAdd(angle, 0 - (field_of_view \div Unit)))

VisibleEndFullFov(angle, field_of_view) ==
    PyMod360(FloatAdd(angle, field_of_view))

VisibleEnd(angle, field_of_view) ==
    PyMod360(FloatAdd(angle, field_of_view \div Unit))

CameraRecordKeepRange(scene_id, angle, field_of_view) ==
    [angle |-> PyMod360(angle),
     fov |-> field_of_view,
     visible_range |->
         IF scene_id \in DOMAIN camera_angles
         THEN camera_angles[scene_id].visible_range
         ELSE <<VisibleStart(angle, field_of_view), VisibleEnd(angle, field_of_view)>>]

CameraRecord(scene_id, angle, field_of_view) ==
    [angle |-> PyMod360(angle),
     fov |-> field_of_view,
     visible_range |->
         <<VisibleStart(angle, field_of_view), VisibleEnd(angle, field_of_view)>>]

register_camera_angle(scene_id, angle, field_of_view) ==
    /\ camera_angles' =
           [s \in DOMAIN camera_angles \cup {scene_id} |->
               IF s = scene_id THEN CameraRecord(scene_id, angle, field_of_view)
               ELSE camera_angles[s]]
    /\ call' = Call("register_camera_angle", scene_id, angle, field_of_view)
    /\ ret' = None
    /\ UNCHANGED character_positions

----------------------------------------------------------------------------
\* get_visible_characters

InViewStrict(start_angle, end_angle, char_angle) ==
    IF start_angle <= end_angle
    THEN start_angle < char_angle /\ char_angle < end_angle
    ELSE char_angle > start_angle \/ char_angle < end_angle

InViewAnd(start_angle, end_angle, char_angle) ==
    IF start_angle <= end_angle
    THEN start_angle <= char_angle /\ char_angle <= end_angle
    ELSE char_angle >= start_angle /\ char_angle <= end_angle

InView(start_angle, end_angle, char_angle) ==
    IF start_angle <= end_angle
    THEN start_angle <= char_angle /\ char_angle <= end_angle
    ELSE char_angle >= start_angle \/ char_angle <= end_angle

\* The loop over the items of the dict, from item i on.
RECURSIVE VisibleItemsNear(_, _, _, _)
VisibleItemsNear(positions, i, start_angle, end_angle) ==
    IF i > Len(positions) THEN <<>>
    ELSE (IF InView(start_angle, end_angle, positions[i].angle) /\ positions[i].depth > 6
          THEN <<positions[i].name>>
          ELSE <<>>) \o VisibleItemsNear(positions, i + 1, start_angle, end_angle)

RECURSIVE VisibleItems(_, _, _, _)
VisibleItems(positions, i, start_angle, end_angle) ==
    IF i > Len(positions) THEN <<>>
    ELSE (IF InView(start_angle, end_angle, positions[i].angle)
          THEN <<positions[i].name>>
          ELSE <<>>) \o VisibleItems(positions, i + 1, start_angle, end_angle)

VisibleFrom(i, start_angle, end_angle) ==
    VisibleItems(character_positions, i, start_angle, end_angle)

VisibleCharacters(scene_id) ==
    IF scene_id \notin DOMAIN camera_angles THEN <<>>
    ELSE VisibleFrom(1, camera_angles[scene_id].visible_range[1],
                     camera_angles[scene_id].visible_range[2])

get_visible_characters(scene_id) ==
    /\ ret' = List(VisibleCharacters(scene_id))
    /\ call' = Call("get_visible_characters", scene_id, F(0), 0)
    /\ UNCHANGED <<character_positions, camera_angles>>

----------------------------------------------------------------------------
\* extract_camera_view and _crop_panorama_view.  A panorama is its size; its
\* column x holds x, and a view is the sequence of the columns it shows.

\* The panoramas given, width and height, and what the file system does:
\* readable, Image.open succeeds; writable, save succeeds.
Sizes == {<<8, 4>>, <<100, 50>>, <<1000, 500>>}

FileSystems == {<<TRUE, TRUE>>, <<FALSE, TRUE>>, <<TRUE, FALSE>>}

Panoramas ==
    {[width |-> z[1], height |-> z[2], readable |-> io[1], writable |-> io[2]] :
        z \in Sizes, io \in FileSystems}

\* int((angle / 360) * width)
PxOfRound(angle, width) == (2 * angle * width + Full) \div (2 * Full)

PxOf(angle, width) == (angle * width) \div Full

\* panorama.crop((left, 0, right, height)): the columns left .. right - 1; a
\* column off the panorama is filled with black, -1.
Crop(panorama, left, right) ==
    [i \in 1 .. (right - left) |->
        IF left + i - 1 < panorama.width THEN left + i - 1 ELSE -1]

Box(panorama, left, right) == <<left, 0, right, panorama.height>>

\* The wrapping branch: left_part, then right_part pasted at left_part.width.
CropWrappedSwapped(panorama, start_px, end_px) ==
    [boxes |-> <<Box(panorama, start_px, panorama.width), Box(panorama, 0, end_px)>>,
     columns |-> Crop(panorama, 0, end_px) \o Crop(panorama, start_px, panorama.width),
     height |-> panorama.height]

CropWrapped(panorama, start_px, end_px) ==
    [boxes |-> <<Box(panorama, start_px, panorama.width), Box(panorama, 0, end_px)>>,
     columns |-> Crop(panorama, start_px, panorama.width) \o Crop(panorama, 0, end_px),
     height |-> panorama.height]

\* The simple crop.
CropSimpleInclusive(panorama, start_px, end_px) ==
    [boxes |-> <<Box(panorama, start_px, end_px + 1)>>,
     columns |-> Crop(panorama, start_px, end_px + 1),
     height |-> panorama.height]

CropSimple(panorama, start_px, end_px) ==
    [boxes |-> <<Box(panorama, start_px, end_px)>>,
     columns |-> Crop(panorama, start_px, end_px),
     height |-> panorama.height]

CropPanoramaView(panorama, camera) ==
    LET start_px == PxOf(camera.visible_range[1], panorama.width)
        end_px == PxOf(camera.visible_range[2], panorama.width)
    IN  IF end_px < start_px
        THEN CropWrapped(panorama, start_px, end_px)
        ELSE CropSimple(panorama, start_px, end_px)

\* What extract_camera_view returns or raises.
ExtractReturnSwallow(panorama, scene_id) ==
    IF scene_id \notin DOMAIN camera_angles THEN Raise("ValueError")
    ELSE IF ~panorama.readable \/ ~panorama.writable THEN None
    ELSE Path(scene_id)

ExtractReturn(panorama, scene_id) ==
    IF scene_id \notin DOMAIN camera_angles THEN Raise("ValueError")
    ELSE IF ~panorama.readable THEN Raise("OSError")
    ELSE IF ~panorama.writable THEN Raise("OSError")
    ELSE Path(scene_id)

\* The image file it leaves.
ExtractWroteAlways(panorama, scene_id) ==
    IF scene_id \in DOMAIN camera_angles
    THEN [kind |-> "png", view |-> CropPanoramaView(panorama, camera_angles[scene_id])]
    ELSE [kind |-> "png", view |-> CropSimple(panorama, 0, panorama.width)]

ExtractWrote(panorama, scene_id) ==
    IF ExtractReturn(panorama, scene_id).kind = "path"
    THEN [kind |-> "png", view |-> CropPanoramaView(panorama, camera_angles[scene_id])]
    ELSE NoFile

extract_camera_view(panorama, scene_id) ==
    /\ ret' = ExtractReturn(panorama, scene_id)
    /\ wrote' = ExtractWrote(panorama, scene_id)
    /\ call' = Call("extract_camera_view", scene_id, F(0), panorama)
    /\ UNCHANGED <<character_positions, camera_angles>>

----------------------------------------------------------------------------
\* save_environment_map: json.dump of the two dicts; an object is the
\* sequence of its members, a tuple becomes an array.

JsonCharacters(d) ==
    [i \in 1 .. Len(d) |->
        [key |-> d[i].name, value |-> [angle |-> d[i].angle, depth |-> d[i].depth]]]

JsonCameras(c) ==
    [s \in DOMAIN c |->
        [angle |-> c[s].angle, fov |-> c[s].fov,
         visible_range |-> <<c[s].visible_range[1], c[s].visible_range[2]>>]]

EnvMapNoCameras(output_name) ==
    [kind |-> "json", name |-> output_name,
     character_positions |-> JsonCharacters(character_positions),
     camera_angles |-> <<>>]

EnvMap(output_name) ==
    [kind |-> "json", name |-> output_name,
     character_positions |-> JsonCharacters(character_positions),
     camera_angles |-> JsonCameras(camera_angles)]

save_environment_map(output_name) ==
    /\ wrote' = EnvMap(output_name)
    /\ ret' = None
    /\ call' = Call("save_environment_map", output_name, F(0), 0)
    /\ UNCHANGED <<character_positions, camera_angles>>

----------------------------------------------------------------------------
Next ==
    \/ \E n \in Names, p \in CharacterInputs :
           register_character_position(n, p[1], p[2]) /\ wrote' = NoFile /\ SingleOwner
    \/ \E s \in Scenes, p \in CameraInputs :
           register_camera_angle(s, p[1], p[2]) /\ wrote' = NoFile /\ SingleOwner
    \/ \E s \in Scenes : get_visible_characters(s) /\ wrote' = NoFile /\ SingleOwner

\* The registry with its files: few characters and cameras, a view extracted
\* from a panorama and the map saved.
FileCharacterInputs == {<<F(Deg(10)), 10>>, <<F(Deg(180)), 6>>}

FileCameraInputs ==
    {<<F(Deg(0)), Deg(60)>>, <<F(Deg(90)), Deg(60)>>, <<F(Deg(351)), Deg(54)>>,
     <<F(Deg(0)), Deg(360)>>, <<F(Deg(205)), Deg(350)>>, <<NegTiny, Deg(0)>>}

NextFiles ==
    \/ \E n \in Names, p \in FileCharacterInputs :
           register_character_position(n, p[1], p[2]) /\ wrote' = NoFile /\ SingleOwner
    \/ \E s \in Scenes, p \in FileCameraInputs :
           register_camera_angle(s, p[1], p[2]) /\ wrote' = NoFile /\ SingleOwner
    \/ \E s \in Scenes, p \in Panoramas : extract_camera_view(p, s) /\ SingleOwner
    \/ save_environment_map("test_environment") /\ SingleOwner

SpecFiles == Init /\ [][NextFiles]_vars

----------------------------------------------------------------------------
\* Several workers share one registry under an external lock: a worker takes
\* the lock, makes one call and gives the lock back.

LockedCharacterInputs == {<<F(Deg(10)), 10>>, <<F(Deg(180)), 6>>}

LockedCameraInputs == {<<F(Deg(0)), Deg(60)>>}

Acquire(w) ==
    /\ pc[w] = "idle"
    /\ lock = "free"
    /\ lock' = w
    /\ pc' = [pc EXCEPT ![w] = "locked"]
    /\ UNCHANGED <<character_positions, camera_angles, call, ret, wrote, log,
                   quality_scores>>

\* The call of worker w, entered in the log with what it returned.
Logged(w) ==
    /\ pc[w] = "locked"
    /\ lock = w
    /\ Len(log) < MaxCalls
    /\ wrote' = NoFile
    /\ log' = Append(log, [by |-> w, call |-> call', ret |-> ret'])
    /\ pc' = [pc EXCEPT ![w] = "called"]
    /\ UNCHANGED <<lock, quality_scores>>

Release(w) ==
    /\ pc[w] = "called"
    /\ lock = w
    /\ lock' = "free"
    /\ pc' = [pc EXCEPT ![w] = "idle"]
    /\ UNCHANGED <<character_positions, camera_angles, call, ret, wrote, log,
                   quality_scores>>

NextLocked ==
    \/ \E w \in Workers : Acquire(w)
    \/ \E w \in Workers, n \in Names, p \in LockedCharacterInputs :
           register_character_position(n, p[1], p[2]) /\ Logged(w)
    \/ \E w \in Workers, s \in Scenes, p \in LockedCameraInputs :
           register_camera_angle(s, p[1], p[2]) /\ Logged(w)
    \/ \E w \in Workers, s \in Scenes : get_visible_characters(s) /\ Logged(w)
    \/ \E w \in Workers : Release(w)

SpecLocked == Init /\ [][NextLocked]_vars

Spec == Init /\ [][Next]_vars

----------------------------------------------------------------------------
\* youtube_scraper.py: main, extract_playlist_data, extract_channel_videos.

\* The scraper, the pipelines and the quality checker use no registry.
RegistryIdle == UNCHANGED <<character_positions, camera_angles, lock, pc, log>>

\* No call has been made yet: main runs once in its process, and a pipeline
\* keeps nothing of a call for the next one, so that one call is made on each.
Fresh == call.op = "__init__"

\* The lists given to the calls and returned by the site have at most
\* MaxEntries entries.
MaxEntries == 3

SeqsUpTo(S, n) == UNION {[1 .. k -> S] : k \in 0 .. n}

\* The url by the tests main makes on it: 'playlist' in url; '@', '/c/',
\* '/channel/' or '/user/' in url.
Urls == {[playlist |-> p, channel |-> c] : p, c \in BOOLEAN}

\* args.max_videos: None when --max-videos is not given.
MaxVideosArgs ==
    {[given |-> FALSE, n |-> 0]} \cup {[given |-> TRUE, n |-> k] : k \in 0 .. 2}

\* "if max_videos:" is false for None and for 0.
Truthy(max_videos) == max_videos.given /\ max_videos.n # 0

\* An entry of the info the site returns: "video", extract_video_data gives
\* its data; "failed", extract_video_data gives None; "none", the entry
\* itself is None.
EntryKinds == {"video", "failed", "none"}

\* What ydl.extract_info gives for the url: it raises, or it returns an info
\* without or with 'entries'.  With 'playlistend' set the info may hold fewer
\* entries; every list is taken here.
Infos ==
    {[raises |-> TRUE, has_entries |-> FALSE, entries |-> <<>>],
     [raises |-> FALSE, has_entries |-> FALSE, entries |-> <<>>]}
    \cup {[raises |-> FALSE, has_entries |-> TRUE, entries |-> e] :
             e \in SeqsUpTo(EntryKinds, MaxEntries)}

\* The video data of entry i.
VideoData(i) == [video_id |-> i]

\* The loop of extract_playlist_data, from entry i on.
RECURSIVE PlaylistLoop(_, _, _)
PlaylistLoop(entries, i, videos) ==
    IF i > Len(entries) THEN videos
    ELSE IF entries[i] = "video"
    THEN PlaylistLoop(entries, i + 1, Append(videos, VideoData(i)))
    ELSE PlaylistLoop(entries, i + 1, videos)

\* It takes no maximum.
extract_playlist_data(info) ==
    IF info.raises \/ ~info.has_entries THEN <<>>
    ELSE PlaylistLoop(info.entries, 1, <<>>)

\* The loop of extract_channel_videos, from entry i on, with its break.
RECURSIVE ChannelLoop(_, _, _, _)
ChannelLoop(entries, i, videos, max_videos) ==
    IF i > Len(entries) THEN videos
    ELSE IF entries[i] = "video"
    THEN IF Truthy(max_videos) /\ Len(videos) + 1 >= max_videos.n
         THEN Append(videos, VideoData(i))
         ELSE ChannelLoop(entries, i + 1, Append(videos, VideoData(i)), max_videos)
    ELSE ChannelLoop(entries, i + 1, videos, max_videos)

extract_channel_videos(info, max_videos) ==
    IF info.raises \/ ~info.has_entries THEN <<>>
    ELSE ChannelLoop(info.entries, 1, <<>>, max_videos)

\* The single video of the url: extract_video_data gives None when
\* extract_info raises.
SingleVideo(info) == IF info.raises THEN <<>> ELSE <<VideoData(0)>>

ScrapedVideos(url, max_videos, info) ==
    IF url.playlist THEN extract_playlist_data(info)
    ELSE IF url.channel THEN extract_channel_videos(info, max_videos)
    ELSE SingleVideo(info)

\* save_to_json of the videos; nothing is saved when there are none.
SavedDatabase(videos) ==
    IF videos = <<>> THEN NoFile
    ELSE [kind |-> "json", total_videos |-> Len(videos), videos |-> videos]

main(url, max_videos, info) ==
    /\ Fresh
    /\ call' = [op |-> "main", url |-> url, max_videos |-> max_videos, info |-> info]
    /\ ret' = [kind |-> "exit",
               code |-> IF ScrapedVideos(url, max_videos, info) = <<>> THEN 1 ELSE 0,
               videos |-> ScrapedVideos(url, max_videos, info)]
    /\ wrote' = SavedDatabase(ScrapedVideos(url, max_videos, info))
    /\ UNCHANGED quality_scores
    /\ RegistryIdle

NextScraper ==
    \E url \in Urls, max_videos \in MaxVideosArgs, info \in Infos :
        main(url, max_videos, info)

SpecScraper == Init /\ [][NextScraper]_vars

----------------------------------------------------------------------------
\* ai_filmmaking/video_pipeline.py: generate_scene_sequence_video and
\* generate_motion_video.

\* Lists of scenes have at most MaxScenes items, lists of motion prompts at
\* most MaxPrompts.
MaxScenes == 3

MaxPrompts == 2

OutputDir == "/tmp/outputs"

NumFrames == 81

VideoModel == "wan_2.2"

ScenePaths == {"/tmp/outputs/intro.png", "/tmp/outputs/kiss.png"}

\* A prompt may be the empty string.
MotionPrompts == {"Camera remains still as characters interact", ""}

ProjectNames == {"restaurant_proposal"}

FpsArgs == {24, 30}

\* str(self.output_dir / name)
InOutputDir(name) == OutputDir \o "/" \o name

\* f"{k:03d}": decimal, padded with zeros to three digits.
Format03d(k) ==
    IF k < 10 THEN "00" \o ToString(k)
    ELSE IF k < 100 THEN "0" \o ToString(k)
    ELSE ToString(k)

\* num_frames / fps, in thousandths of a second (exact for the fps taken).
Duration(num_frames, fps) == (num_frames * 1000) \div fps

\* _build_video_workflow: the entries that carry an argument; the fixed
\* settings of the nodes are left out.
BuildVideoWorkflow(start_frame, end_frame, motion_prompt, num_frames, fps, video_model) ==
    [meta |-> [description |-> "IMG2VID Motion Generation", version |-> "1.0.0"],
     config |-> [start_frame |-> start_frame,
                 end_frame |-> end_frame,
                 motion_prompt |-> motion_prompt,
                 num_frames |-> num_frames,
                 fps |-> fps,
                 video_model |-> video_model],
     nodes |-> [load_start_frame |-> [image |-> start_frame],
                load_end_frame |-> [image |-> end_frame],
                load_video_model |-> [model_name |-> video_model],
                encode_motion_prompt |-> [text |-> motion_prompt],
                video_generation |-> [length |-> num_frames],
                video_encode |-> [fps |-> fps]]]

\* generate_motion_video: the workflow file it writes and the result it
\* returns.
GenerateMotionVideo(start_frame, end_frame, motion_prompt, output_name, num_frames, fps, video_model) ==
    [file |-> [path |-> InOutputDir(output_name \o "_workflow.json"),
               workflow |-> BuildVideoWorkflow(start_frame, end_frame, motion_prompt,
                                               num_frames, fps, video_model)],
     result |-> [video_name |-> output_name,
                 workflow_path |-> InOutputDir(output_name \o "_workflow.json"),
                 output_path |-> InOutputDir(output_name \o ".mp4"),
                 duration |-> Duration(num_frames, fps),
                 frames |-> num_frames,
                 fps |-> fps,
                 status |-> "configured"]]

\* motion_prompts[idx] if idx < len(motion_prompts) else "smooth transition",
\* idx counted from 0.
MotionPrompt(motion_prompts, idx) ==
    IF idx < Len(motion_prompts) THEN motion_prompts[idx + 1] ELSE "smooth transition"

\* scenes[idx + 1], idx counted from 0.
EndFrameSame(scenes, idx) == scenes[idx + 1]

EndFrame(scenes, idx) == scenes[idx + 2]

VideoName(project_name, idx) == project_name \o "_transition_" \o Format03d(idx + 1)

\* The loop over range(len(scenes) - 1), from idx on: the videos generated.
RECURSIVE TransitionVideos(_, _, _, _, _)
TransitionVideos(scenes, motion_prompts, project_name, fps, idx) ==
    IF idx >= Len(scenes) - 1 THEN <<>>
    ELSE <<GenerateMotionVideo(scenes[idx + 1], EndFrame(scenes, idx),
                               MotionPrompt(motion_prompts, idx),
                               VideoName(project_name, idx),
                               NumFrames, fps, VideoModel)>>
         \o TransitionVideos(scenes, motion_prompts, project_name, fps, idx + 1)

SequenceVideos(scenes, motion_prompts, project_name, fps) ==
    IF Len(scenes) < 2 THEN <<>>
    ELSE TransitionVideos(scenes, motion_prompts, project_name, fps, 0)

\* The files a call leaves, in the order written.
Files(made) ==
    IF made = <<>> THEN NoFile
    ELSE [kind |-> "workflows", files |-> [i \in 1 .. Len(made) |-> made[i].file]]

Results(made) ==
    [kind |-> "results", results |-> [i \in 1 .. Len(made) |-> made[i].result]]

\* writable: open(workflow_path, "w") succeeds; when it does not, the first
\* generate_motion_video raises.
generate_scene_sequence_video(scenes, motion_prompts, project_name, fps, writable) ==
    LET made == SequenceVideos(scenes, motion_prompts, project_name, fps)
    IN  /\ Fresh
        /\ call' = [op |-> "generate_scene_sequence_video", scenes |-> scenes,
                    motion_prompts |-> motion_prompts, project_name |-> project_name,
                    fps |-> fps, writable |-> writable]
        /\ ret' = IF made # <<>> /\ ~writable THEN Raise("OSError") ELSE Results(made)
        /\ wrote' = IF writable THEN Files(made) ELSE NoFile
        /\ UNCHANGED quality_scores
        /\ RegistryIdle

NextVideo ==
    \E scenes \in SeqsUpTo(ScenePaths, MaxScenes),
       motion_prompts \in SeqsUpTo(MotionPrompts, MaxPrompts),
       project_name \in ProjectNames, fps \in FpsArgs, writable \in BOOLEAN :
        generate_scene_sequence_video(scenes, motion_prompts, project_name, fps, writable)

SpecVideo == Init /\ [][NextVideo]_vars

----------------------------------------------------------------------------
\* ai_filmmaking/scene_generator.py: generate_scene_sequence and
\* generate_single_scene.

\* An optional string: None is the empty sequence.
NoneStr == <<>>

Some(x) == <<x>>

\* The scene_config dicts of the caller: two objects; the list of scenes
\* holds references to them, so one dict may be listed more than once.
ConfigObjects == {1, 2}

SceneNames == {NoneStr, Some("intro"), Some("kiss")}

\* The dicts: each with or without a "name"; the prompt tells them apart.
ConfigHeaps ==
    {[o \in ConfigObjects |->
         [name |-> names[o], prompt |-> IF o = 1 THEN "Alice enters" ELSE "Bob kneels"]] :
        names \in [ConfigObjects -> SceneNames]}

\* scene_config["name"] = scene_config.get("name", f"{project_name}_scene_{idx:03d}")
SetDefaultName(scene_config, project_name, idx) ==
    IF scene_config.name # NoneStr THEN scene_config
    ELSE [scene_config EXCEPT !.name = Some(project_name \o "_scene_" \o Format03d(idx))]

\* _build_scene_workflow: the entries that carry the prompt and the previous
\* scene; the fixed settings and nodes are left out.
BuildSceneWorkflow(prompt, previous_scene) ==
    [meta |-> [description |-> "AI Filmmaking Scene Generation", version |-> "1.0.0"],
     config |-> [prompt |-> prompt],
     references |-> [previous_scene |-> previous_scene],
     nodes |-> [clip_text_encode_positive |-> [text |-> prompt]]]

\* generate_single_scene: the workflow file it writes and the result it
\* returns.
GenerateSingleScene(scene_config, previous_scene) ==
    [file |-> [path |-> InOutputDir(scene_config.name[1] \o "_workflow.json"),
               workflow |-> BuildSceneWorkflow(scene_config.prompt, previous_scene)],
     result |-> [scene_name |-> scene_config.name[1],
                 workflow_path |-> InOutputDir(scene_config.name[1] \o "_workflow.json"),
                 output_path |-> InOutputDir(scene_config.name[1] \o ".png"),
                 status |-> "configured",
                 config |-> scene_config]]

\* previous_scene = result["output_path"]
PreviousSceneNone(result) == NoneStr

PreviousScene(result) == Some(result.output_path)

\* The loop over enumerate(scenes, 1), from idx on: the scenes generated.
RECURSIVE SceneLoop(_, _, _, _, _)
SceneLoop(scenes, heap, project_name, idx, previous_scene) ==
    IF idx > Len(scenes) THEN <<>>
    ELSE LET scene_config == SetDefaultName(heap[scenes[idx]], project_name, idx)
             made == GenerateSingleScene(scene_config, previous_scene)
         IN  <<made>> \o SceneLoop(scenes, [heap EXCEPT ![scenes[idx]] = scene_config],
                                   project_name, idx + 1, PreviousScene(made.result))

\* writable: open(workflow_path, "w") succeeds; when it does not, the first
\* generate_single_scene raises.
generate_scene_sequence(scenes, heap, project_name, writable) ==
    LET made == SceneLoop(scenes, heap, project_name, 1, NoneStr)
    IN  /\ Fresh
        /\ call' = [op |-> "generate_scene_sequence", scenes |-> scenes, heap |-> heap,
                    project_name |-> project_name, writable |-> writable]
        /\ ret' = IF made # <<>> /\ ~writable THEN Raise("OSError") ELSE Results(made)
        /\ wrote' = IF writable THEN Files(made) ELSE NoFile
        /\ UNCHANGED quality_scores
        /\ RegistryIdle

NextScenes ==
    \E scenes \in SeqsUpTo(ConfigObjects, MaxScenes), heap \in ConfigHeaps,
       project_name \in ProjectNames, writable \in BOOLEAN :
        generate_scene_sequence(scenes, heap, project_name, writable)

SpecScenes == Init /\ [][NextScenes]_vars

----------------------------------------------------------------------------
\* ai_filmmaking/quality_control.py: assess_scene and _get_quality_level.

\* Scores are counted in twelfths of a point, so that the mean of one to four
\* scores is a whole number of them.
ScoreUnit == 12

Points(p) == p * ScoreUnit

\* The dict QUALITY_THRESHOLDS, its items in the order written.
QUALITY_THRESHOLDS ==
    <<[level |-> "excellent", threshold |-> Points(90)],
      [level |-> "good", threshold |-> Points(80)],
      [level |-> "acceptable", threshold |-> Points(70)],
      [level |-> "needs_improvement", threshold |-> Points(60)],
      [level |-> "poor", threshold |-> Points(0)]>>

\* sorted(items, key=lambda x: x[1], reverse=True): the item of the largest
\* threshold first.
RECURSIVE SortedAscending(_)
SortedAscending(items) ==
    IF items = <<>> THEN <<>>
    ELSE LET i == CHOOSE i \in 1 .. Len(items) :
                      \A j \in 1 .. Len(items) : items[i].threshold <= items[j].threshold
         IN  <<items[i]>> \o
             SortedAscending(SubSeq(items, 1, i - 1) \o SubSeq(items, i + 1, Len(items)))

RECURSIVE SortedDescending(_)
SortedDescending(items) ==
    IF items = <<>> THEN <<>>
    ELSE LET i == CHOOSE i \in 1 .. Len(items) :
                      \A j \in 1 .. Len(items) : items[i].threshold >= items[j].threshold
         IN  <<items[i]>> \o
             SortedDescending(SubSeq(items, 1, i - 1) \o SubSeq(items, i + 1, Len(items)))

\* The loop of _get_quality_level over the sorted items, from item i on.
RECURSIVE FirstLevel(_, _, _)
FirstLevel(items, i, score) ==
    IF i > Len(items) THEN "poor"
    ELSE IF score >= items[i].threshold THEN items[i].level
    ELSE FirstLevel(items, i + 1, score)

QualityLevel(score) == FirstLevel(SortedDescending(QUALITY_THRESHOLDS), 1, score)

\* The checks of assess_scene in the order made, each with the score its
\* placeholder returns.
Checks ==
    <<[key |-> "character_consistency", value |-> Points(85)],
      [key |-> "environment_quality", value |-> Points(80)],
      [key |-> "composition", value |-> Points(85)],
      [key |-> "lighting", value |-> Points(88)]>>

\* The four check_ arguments, in the order of Checks.
CheckArgs == [1 .. 4 -> BOOLEAN]

\* assessment["scores"]: the items of the enabled checks.
RECURSIVE ScoresFrom(_, _)
ScoresFrom(enabled, i) ==
    IF i > Len(Checks) THEN <<>>
    ELSE (IF enabled[i] THEN <<Checks[i]>> ELSE <<>>) \o ScoresFrom(enabled, i + 1)

\* sum(scores.values())
RECURSIVE SumValues(_)
SumValues(scores) ==
    IF scores = <<>> THEN 0 ELSE scores[1].value + SumValues(Tail(scores))

OverallScore(scores) ==
    IF scores # <<>> THEN SumValues(scores) \div Len(scores) ELSE 0

\* scene_config.get("name", "unknown_scene")
AssessedName(scene_config) ==
    IF scene_config.name # NoneStr THEN scene_config.name[1] ELSE "unknown_scene"

Assessment(scene_path, scene_config, enabled) ==
    [scene_name |-> AssessedName(scene_config),
     scene_path |-> scene_path,
     scores |-> ScoresFrom(enabled, 1),
     issues |-> <<>>,
     recommendations |-> <<>>,
     overall_score |-> OverallScore(ScoresFrom(enabled, 1)),
     quality_level |-> QualityLevel(OverallScore(ScoresFrom(enabled, 1)))]

assess_scene(scene_path, scene_config, enabled) ==
    /\ quality_scores' =
           [n \in DOMAIN quality_scores \cup {AssessedName(scene_config)} |->
               IF n = AssessedName(scene_config)
               THEN Assessment(scene_path, scene_config, enabled)
               ELSE quality_scores[n]]
    /\ call' = [op |-> "assess_scene", scene_path |-> scene_path,
                scene_config |-> scene_config, enabled |-> enabled]
    /\ ret' = [kind |-> "assessment",
               assessment |-> Assessment(scene_path, scene_config, enabled)]
    /\ wrote' = NoFile
    /\ RegistryIdle

\* The scores _get_quality_level is called with: on each threshold, just
\* below it, below 0 and above 100.
Scores ==
    {Points(p) - d : p \in {0, 60, 70, 80, 90}, d \in {0, 1}}
    \cup {Points(-5), Points(85), Points(100), Points(101)}

get_quality_level(score) ==
    /\ call' = [op |-> "_get_quality_level", score |-> score]
    /\ ret' = [kind |-> "level", level |-> QualityLevel(score)]
    /\ wrote' = NoFile
    /\ UNCHANGED quality_scores
    /\ RegistryIdle

AssessedConfigs == {[name |-> NoneStr], [name |-> Some("test_scene")]}

NextQuality ==
    \/ \E scene_config \in AssessedConfigs, enabled \in CheckArgs :
           assess_scene("test_scene.png", scene_config, enabled)
    \/ \E score \in Scores : get_quality_level(score)

SpecQuality == Init /\ [][NextQuality]_vars

----------------------------------------------------------------------------
\* What the claims speak of.

Queried == call.op = "get_visible_characters"

QueriedRegistered == Queried /\ call.id \in DOMAIN camera_angles

RegisteredCamera == call.op = "register_camera_angle"

RegisteredCharacter == call.op = "register_character_position"

Returned == {ret.names[i] : i \in 1 .. Len(ret.names)}

RangeOf(scene_id) == camera_angles[scene_id].visible_range

\* The closed circular interval from start to end, as the specification
\* defines it.
InInterval(start, end, angle) ==
    \/ start <= end /\ start <= angle /\ angle <= end
    \/ start > end /\ (angle >= start \/ angle <= end)

CharactersAt(angle) ==
    {character_positions[i].name :
        i \in {j \in 1 .. Len(character_positions) : character_positions[j].angle = angle}}

\* a mod 360 for a float a, rounded to a float: a grid number goes to its
\* remainder, and 360 less something tiny rounds to 360.
Mod360(a) ==
    IF a.eps < 0 /\ a.n % Full = 0 THEN Full ELSE a.n % Full

\* The record the specification gives a camera at angle a with field of view f.
ExpectedCamera(a, f) ==
    [angle |-> Mod360(a),
     fov |-> f,
     visible_range |-> <<Mod360(FloatAdd(a, 0 - f \div 2)), Mod360(FloatAdd(a, f \div 2))>>]

----------------------------------------------------------------------------
\* C1: a query of a registered camera returns exactly the characters whose
\* stored angle lies in the camera's closed circular interval: none outside
\* it is returned and none inside it is left out.
C1_VisibleExactlyInterval ==
    QueriedRegistered =>
        Returned =
            {character_positions[i].name :
                i \in {j \in 1 .. Len(character_positions) :
                          InInterval(RangeOf(call.id)[1], RangeOf(call.id)[2],
                                     character_positions[j].angle)}}

\* A wrapping camera that sees one of two registered characters.
C1_Witness ==
    /\ QueriedRegistered
    /\ RangeOf(call.id)[1] > RangeOf(call.id)[2]
    /\ Len(character_positions) = 2
    /\ Len(ret.names) = 1

\* C2: a query of a camera id that was never registered gives an outcome that
\* differs from the empty list a registered camera seeing nobody gives.
C2_UnknownCameraDistinguished ==
    (Queried /\ call.id \notin DOMAIN camera_angles) => ret # List(<<>>)

\* C3: a character whose stored angle equals the start or the end of the
\* queried camera's visible range is returned, wrapping or not.
C3_BoundaryIncluded ==
    QueriedRegistered =>
        \A i \in 1 .. Len(character_positions) :
            character_positions[i].angle \in {RangeOf(call.id)[1], RangeOf(call.id)[2]}
                => character_positions[i].name \in Returned

\* A wrapping camera with a character exactly at the end of its range.
C3_Witness ==
    /\ QueriedRegistered
    /\ RangeOf(call.id)[1] > RangeOf(call.id)[2]
    /\ CharactersAt(RangeOf(call.id)[2]) # {}
    /\ CharactersAt(RangeOf(call.id)[2]) \subseteq Returned

\* C4: register_camera_angle(id, angle, fov) stores under id the record with
\* angle mod 360 and the range ((angle - fov/2) mod 360, (angle + fov/2) mod
\* 360), for negative angles and angles of 360 and more as well.
C4_CameraRecordStored ==
    RegisteredCamera =>
        /\ call.id \in DOMAIN camera_angles
        /\ camera_angles[call.id] = ExpectedCamera(call.angle, call.arg)

\* A camera registered with a negative angle.
C4_Witness ==
    /\ RegisteredCamera
    /\ call.angle.n < 0
    /\ camera_angles[call.id].visible_range = <<Deg(330), Deg(30)>>

\* C5: a camera registered with a field of view of 360 sees every registered
\* character.
C5_FullCircleSeesAll ==
    (QueriedRegistered /\ camera_angles[call.id].fov = Deg(360))
        => Returned = Keys(character_positions)

\* C6: the camera registered at 0 with fov 60 has range (330, 30), sees the
\* characters at 340 and at 10 and not the one at 180; the camera registered
\* at 90 with fov 60 has range (60, 120), sees the character at 60 and not
\* the one at 121.
C6_WorkedScenarios ==
    /\ (RegisteredCamera /\ call.angle = F(Deg(0)) /\ call.arg = Deg(60))
           => RangeOf(call.id) = <<Deg(330), Deg(30)>>
    /\ (RegisteredCamera /\ call.angle = F(Deg(90)) /\ call.arg = Deg(60))
           => RangeOf(call.id) = <<Deg(60), Deg(120)>>
    /\ (QueriedRegistered /\ camera_angles[call.id].angle = Deg(0)
                          /\ camera_angles[call.id].fov = Deg(60))
           => /\ CharactersAt(Deg(340)) \cup CharactersAt(Deg(10)) \subseteq Returned
              /\ CharactersAt(Deg(180)) \cap Returned = {}
    /\ (QueriedRegistered /\ camera_angles[call.id].angle = Deg(90)
                          /\ camera_angles[call.id].fov = Deg(60))
           => /\ CharactersAt(Deg(60)) \subseteq Returned
              /\ CharactersAt(Deg(121)) \cap Returned = {}

\* The camera at 0 with fov 60 queried with characters at 10 and at 180.
C6_Witness ==
    /\ QueriedRegistered
    /\ camera_angles[call.id].angle = Deg(0)
    /\ camera_angles[call.id].fov = Deg(60)
    /\ CharactersAt(Deg(10)) # {}
    /\ CharactersAt(Deg(180)) # {}
    /\ Returned = CharactersAt(Deg(10))

\* C7: every stored character angle, every stored camera angle and both ends
\* of every stored visible range lie in [0, 360).
C7_StoredAnglesNormalized ==
    /\ \A i \in 1 .. Len(character_positions) :
           character_positions[i].angle \in 0 .. (Full - 1)
    /\ \A s \in DOMAIN camera_angles :
           /\ camera_angles[s].angle \in 0 .. (Full - 1)
           /\ camera_angles[s].visible_range[1] \in 0 .. (Full - 1)
           /\ camera_angles[s].visible_range[2] \in 0 .. (Full - 1)

\* C8: registering a character name or a camera id that is already registered
\* leaves one record for it, the record a first registration with the new
\* arguments produces, and raises nothing.
C8_ReRegistrationReplaces ==
    /\ (RegisteredCharacter /\ call.existed) =>
           /\ Cardinality({i \in 1 .. Len(character_positions) :
                              character_positions[i].name = call.id}) = 1
           /\ \E i \in 1 .. Len(character_positions) :
                  character_positions[i] =
                      [name |-> call.id, angle |-> Mod360(call.angle), depth |-> call.arg]
           /\ ret = None
    /\ (RegisteredCamera /\ call.existed) =>
           /\ camera_angles[call.id] = ExpectedCamera(call.angle, call.arg)
           /\ ret = None

\* A registered name registered again, with a second character present.
C8_Witness ==
    /\ RegisteredCharacter
    /\ call.existed
    /\ ~call.again
    /\ Len(character_positions) = 2

\* C9: a registration that repeats the registration made just before it, same
\* key and same arguments, leaves both dicts as they are.
C9_RegistrationIdempotent ==
    [][(call'.again /\ call'.op # "get_visible_characters")
          => (character_positions' = character_positions
              /\ camera_angles' = camera_angles)]_vars

\* A camera registration made twice in a row.
C9_Witness ==
    /\ RegisteredCamera
    /\ call.again
    /\ Len(character_positions) > 0

\* C10: the width of the visible range a registration computes, (end - start)
\* mod 360, is the field of view mod 360.
C10_RangeWidth ==
    RegisteredCamera =>
        (RangeOf(call.id)[2] - RangeOf(call.id)[1]) % Full = call.arg % Full

\* A camera registered with fov 60 whose range wraps.
C10_Witness ==
    /\ RegisteredCamera
    /\ call.arg = Deg(60)
    /\ RangeOf(call.id)[1] > RangeOf(call.id)[2]

----------------------------------------------------------------------------
\* What the claims about files speak of.

Extracted == call.op = "extract_camera_view"

ExtractedOk == Extracted /\ ret.kind = "path"

Registry == <<character_positions, camera_angles>>

\* The largest column not to the right of the angle: px with
\* px <= angle / 360 * width < px + 1.
IsColumnBelow(px, angle, width) ==
    px * Full <= angle * width /\ angle * width < (px + 1) * Full

\* A column nearest to the angle: |angle / 360 * width - px| <= 1/2.
IsNearestColumn(px, angle, width) ==
    /\ 2 * (angle * width - px * Full) <= Full
    /\ 2 * (px * Full - angle * width) <= Full

\* start_px and end_px of the extraction made last, as the claims use them.
ClaimStartPx == CHOOSE px \in 0 .. call.arg.width :
                    IsColumnBelow(px, RangeOf(call.id)[1], call.arg.width)

ClaimEndPx == CHOOSE px \in 0 .. call.arg.width :
                  IsColumnBelow(px, RangeOf(call.id)[2], call.arg.width)

\* The corners the extraction passed to crop: the left of the first box and
\* the right of the last.
CroppedFrom == wrote.view.boxes[1][1]

CroppedTo == wrote.view.boxes[Len(wrote.view.boxes)][3]

----------------------------------------------------------------------------
\* C11: extract_camera_view for a scene id that is not registered raises
\* ValueError whatever the panorama, leaves no image and leaves both dicts
\* unchanged.
C11_UnregisteredExtractFails ==
    [][(call'.op = "extract_camera_view" /\ call'.id \notin DOMAIN camera_angles)
          => /\ ret' = Raise("ValueError")
             /\ wrote'.kind = "none"
             /\ Registry' = Registry]_vars

\* An unregistered scene extracted from an unreadable panorama, with a
\* character and a camera registered.
C11_Witness ==
    /\ Extracted
    /\ ~call.existed
    /\ ~call.arg.readable
    /\ Len(character_positions) > 0
    /\ DOMAIN camera_angles # {}

\* C12: when end_px < start_px the view has the panorama's height and the
\* columns start_px .. W-1 followed by 0 .. end_px-1, so its width is
\* (W - start_px) + end_px; for W = 1000, start 900 and end 50 the width is
\* 150, the leftmost column 900 and the rightmost 49.
C12_SeamCrossing ==
    (ExtractedOk /\ ClaimEndPx < ClaimStartPx) =>
        LET W == call.arg.width
            s == ClaimStartPx
            e == ClaimEndPx
        IN  /\ wrote.view.height = call.arg.height
            /\ wrote.view.columns =
                   [i \in 1 .. ((W - s) + e) |->
                       IF i <= W - s THEN s + i - 1 ELSE i - (W - s) - 1]
            /\ (W = 1000 /\ s = 900 /\ e = 50)
                   => /\ Len(wrote.view.columns) = 150
                      /\ wrote.view.columns[1] = 900
                      /\ wrote.view.columns[150] = 49

\* The view from column 900 to column 50 of a panorama 1000 wide.
C12_Witness ==
    /\ ExtractedOk
    /\ call.arg.width = 1000
    /\ ClaimStartPx = 900
    /\ ClaimEndPx = 50
    /\ Len(wrote.view.columns) = 150

\* C13: when end_px >= start_px the view has the panorama's height and
\* exactly the columns start_px .. end_px-1 in order, so its width is
\* end_px - start_px.
C13_SimpleCrop ==
    (ExtractedOk /\ ClaimEndPx >= ClaimStartPx) =>
        /\ wrote.view.height = call.arg.height
        /\ wrote.view.columns =
               [i \in 1 .. (ClaimEndPx - ClaimStartPx) |-> ClaimStartPx + i - 1]

\* A view that does not cross the seam and is not empty.
C13_Witness ==
    /\ ExtractedOk
    /\ ClaimEndPx > ClaimStartPx
    /\ Len(wrote.view.columns) = ClaimEndPx - ClaimStartPx

\* C14 as claimed: both ends of the visible range are converted to the
\* nearest pixel column, round(angle / 360 * width).
C14_PixelsRounded ==
    ExtractedOk =>
        /\ IsNearestColumn(CroppedFrom, RangeOf(call.id)[1], call.arg.width)
        /\ IsNearestColumn(CroppedTo, RangeOf(call.id)[2], call.arg.width)

\* C14 as amended: both ends of the visible range are converted by
\* truncation, int(angle / 360 * width), the largest column not beyond the
\* angle.
C14_PixelsTruncated ==
    ExtractedOk =>
        /\ IsColumnBelow(CroppedFrom, RangeOf(call.id)[1], call.arg.width)
        /\ IsColumnBelow(CroppedTo, RangeOf(call.id)[2], call.arg.width)

\* An extraction where truncation and rounding differ: 330 degrees of a
\* panorama 100 wide is column 91, not 92.
C14_Witness ==
    /\ ExtractedOk
    /\ call.arg.width = 100
    /\ RangeOf(call.id)[1] = Deg(330)
    /\ CroppedFrom = 91

\* C18: when the panorama cannot be opened or the view cannot be saved,
\* extract_camera_view raises, and both dicts are as they were.
C18_IoFailurePropagates ==
    [][(/\ call'.op = "extract_camera_view"
        /\ call'.id \in DOMAIN camera_angles
        /\ (~call'.arg.readable \/ ~call'.arg.writable))
          => /\ ret'.kind = "raise"
             /\ Registry' = Registry]_vars

\* A registered camera's view that could not be saved, with a character
\* registered.
C18_Witness ==
    /\ Extracted
    /\ call.existed
    /\ call.arg.readable
    /\ ~call.arg.writable
    /\ ret.kind = "raise"
    /\ Len(character_positions) > 0

\* C19: the saved map holds the two collections with exactly the records of
\* the registry at that moment, every registered key once with its latest
\* values, and saving leaves the registry unchanged.
C19_ExportIsRegistry ==
    [][call'.op = "save_environment_map"
          => /\ Registry' = Registry
             /\ wrote'.kind = "json"
             /\ Len(wrote'.character_positions) = Cardinality(Keys(character_positions))
             /\ \A i \in 1 .. Len(character_positions) :
                    \E m \in 1 .. Len(wrote'.character_positions) :
                        /\ wrote'.character_positions[m].key = character_positions[i].name
                        /\ wrote'.character_positions[m].value.angle =
                               character_positions[i].angle
                        /\ wrote'.character_positions[m].value.depth =
                               character_positions[i].depth
             /\ DOMAIN wrote'.camera_angles = DOMAIN camera_angles
             /\ \A s \in DOMAIN camera_angles :
                    /\ wrote'.camera_angles[s].angle = camera_angles[s].angle
                    /\ wrote'.camera_angles[s].fov = camera_angles[s].fov
                    /\ wrote'.camera_angles[s].visible_range[1] = RangeOf(s)[1]
                    /\ wrote'.camera_angles[s].visible_range[2] = RangeOf(s)[2]]_vars

\* A map saved with both characters and both cameras registered.
C19_Witness ==
    /\ call.op = "save_environment_map"
    /\ Len(character_positions) = 2
    /\ DOMAIN camera_angles = Scenes
    /\ wrote.kind = "json"

----------------------------------------------------------------------------
\* C15: every stored camera has a field of view in (0, 360]: a registration
\* with a field of view of 0 or less is rejected and stores nothing.
C15_FovPositive ==
    \A s \in DOMAIN camera_angles :
        camera_angles[s].fov > 0 /\ camera_angles[s].fov <= Full

\* The items of the dict other than the one of key k, in order.
Others(d, k) == SelectSeq(d, LAMBDA item : item.name # k)

\* C16: register_character_position changes the item of its name only and no
\* camera, register_camera_angle the record of its scene id only and no
\* character, also when a name is a scene id too; get_visible_characters
\* changes neither dict.
C16_OwnKeyOnly ==
    [][/\ call'.op = "register_character_position"
           => /\ camera_angles' = camera_angles
              /\ Others(character_positions', call'.id)
                     = Others(character_positions, call'.id)
       /\ call'.op = "register_camera_angle"
           => /\ character_positions' = character_positions
              /\ DOMAIN camera_angles' = DOMAIN camera_angles \cup {call'.id}
              /\ \A s \in DOMAIN camera_angles \ {call'.id} :
                     camera_angles'[s] = camera_angles[s]
       /\ call'.op = "get_visible_characters"
           => Registry' = Registry]_vars

\* The character Bob registered again while a camera of scene id Bob and
\* another character are registered.
C16_Witness ==
    /\ RegisteredCharacter
    /\ call.id = "Bob"
    /\ call.existed
    /\ "Bob" \in DOMAIN camera_angles
    /\ Len(character_positions) = 2

\* The depths a character may be given, in tenths.
Depths == {0, 6, 10}

Redepth(d, g) == [i \in 1 .. Len(d) |-> [d[i] EXCEPT !.depth = g[i]]]

\* C17: the characters a query returns are the ones it returns from the
\* registry with any other depths given to the characters.
C17_DepthIgnored ==
    QueriedRegistered =>
        \A g \in [1 .. Len(character_positions) -> Depths] :
            VisibleItems(Redepth(character_positions, g), 1,
                         RangeOf(call.id)[1], RangeOf(call.id)[2]) = ret.names

\* A query that returns two characters of different depths.
C17_Witness ==
    /\ QueriedRegistered
    /\ Len(ret.names) = 2
    /\ character_positions[1].depth # character_positions[2].depth

----------------------------------------------------------------------------
\* The registry the specification gives after the registrations of a log,
\* applied one after the other.

RECURSIVE ReplayCharacters(_)
ReplayCharacters(l) ==
    IF l = <<>> THEN <<>>
    ELSE LET before == ReplayCharacters(SubSeq(l, 1, Len(l) - 1))
             c == l[Len(l)].call
             item == [name |-> c.id, angle |-> Mod360(c.angle), depth |-> c.arg]
         IN  IF c.op # "register_character_position" THEN before
             ELSE IF \E i \in 1 .. Len(before) : before[i].name = c.id
             THEN [i \in 1 .. Len(before) |->
                      IF before[i].name = c.id THEN item ELSE before[i]]
             ELSE before \o <<item>>

RECURSIVE ReplayCameras(_)
ReplayCameras(l) ==
    IF l = <<>> THEN <<>>
    ELSE LET before == ReplayCameras(SubSeq(l, 1, Len(l) - 1))
             c == l[Len(l)].call
         IN  IF c.op # "register_camera_angle" THEN before
             ELSE [s \in DOMAIN before \cup {c.id} |->
                      IF s = c.id THEN ExpectedCamera(c.angle, c.arg) ELSE before[s]]

\* The characters of registry d inside the range of camera record c.
SeenIn(d, c) ==
    {d[i].name : i \in {j \in 1 .. Len(d) :
        InInterval(c.visible_range[1], c.visible_range[2], d[j].angle)}}

\* C20: with every call made under the lock, each query's result is the
\* interval test on the registry of the registrations logged before it, and
\* the registry is the one the logged registrations give in lock order.
C20_Linearizable ==
    /\ character_positions = ReplayCharacters(log)
    /\ camera_angles = ReplayCameras(log)
    /\ \A k \in 1 .. Len(log) :
           LET before == SubSeq(log, 1, k - 1)
               c == log[k].call
           IN  (c.op = "get_visible_characters" /\ c.id \in DOMAIN ReplayCameras(before))
                   => {log[k].ret.names[i] : i \in 1 .. Len(log[k].ret.names)}
                          = SeenIn(ReplayCharacters(before), ReplayCameras(before)[c.id])

\* One worker registers a character, the other a camera, and a query of that
\* camera then returns the character.
C20_Witness ==
    /\ Len(log) = 3
    /\ log[1].by # log[2].by
    /\ log[1].call.op = "register_character_position"
    /\ log[2].call.op = "register_camera_angle"
    /\ log[3].call.op = "get_visible_characters"
    /\ log[3].call.id = log[2].call.id
    /\ log[3].ret.names = <<log[1].call.id>>
    /\ lock = "free"

----------------------------------------------------------------------------
\* The range the specification computes from a record's own stored angle and
\* stored field of view.
RangeFromStored(c) ==
    <<Mod360(FloatAdd(F(c.angle), 0 - c.fov \div 2)),
      Mod360(FloatAdd(F(c.angle), c.fov \div 2))>>

\* C22: in every state the visible_range of each stored camera record is
\* ((angle - fov/2) mod 360, (angle + fov/2) mod 360) of the record's own
\* stored angle and stored fov.
C22_RecordConsistent ==
    \A s \in DOMAIN camera_angles :
        camera_angles[s].visible_range = RangeFromStored(camera_angles[s])

\* C23: an extraction takes the two-piece branch, end_px < start_px, exactly
\* when the camera's visible range wraps, start > end.
C23_SeamBranchIffWraps ==
    ExtractedOk =>
        /\ (Len(wrote.view.boxes) = 2) <=> (RangeOf(call.id)[1] > RangeOf(call.id)[2])
        /\ (CroppedTo < CroppedFrom) <=> (RangeOf(call.id)[1] > RangeOf(call.id)[2])

\* C24: for a camera with a field of view in (0, 360] the width of the
\* extracted view differs from field_of_view / 360 * W by less than one
\* pixel.
C24_ViewWidth ==
    (ExtractedOk /\ camera_angles[call.id].fov \in 1 .. Full) =>
        LET got == Len(wrote.view.columns) * Full
            want == camera_angles[call.id].fov * call.arg.width
        IN  got - want < Full /\ want - got < Full

\* C25: start_px and end_px lie in 0 .. W-1, every crop box lies inside
\* [0, W] x [0, H], and the view is at most W wide.
C25_CropInsidePanorama ==
    ExtractedOk =>
        LET W == call.arg.width
            H == call.arg.height
        IN  /\ CroppedFrom \in 0 .. (W - 1)
            /\ CroppedTo \in 0 .. (W - 1)
            /\ \A b \in 1 .. Len(wrote.view.boxes) :
                   /\ 0 <= wrote.view.boxes[b][1]
                   /\ wrote.view.boxes[b][1] <= wrote.view.boxes[b][3]
                   /\ wrote.view.boxes[b][3] <= W
                   /\ wrote.view.boxes[b][2] = 0
                   /\ wrote.view.boxes[b][4] = H
            /\ Len(wrote.view.columns) <= W

\* C26: a camera with a field of view in (0, 360] sees a character whose
\* stored angle is the camera's own stored angle.
C26_SeesOwnDirection ==
    (QueriedRegistered /\ camera_angles[call.id].fov \in 1 .. Full) =>
        CharactersAt(camera_angles[call.id].angle) \subseteq Returned

\* The names of the dict in the order of their first registration.
NameOrder(d) == [i \in 1 .. Len(d) |-> d[i].name]

\* C27: a first registration puts its name behind the names registered
\* before, a re-registration leaves the order of the names as it is and adds
\* no entry, and a query returns the visible names once each in that order.
C27_FirstRegistrationOrder ==
    [][/\ (call'.op = "register_character_position" /\ call'.existed)
           => NameOrder(character_positions') = NameOrder(character_positions)
       /\ (call'.op = "register_character_position" /\ ~call'.existed)
           => NameOrder(character_positions')
                  = Append(NameOrder(character_positions), call'.id)
       /\ call'.op \notin {"register_character_position"}
           => NameOrder(character_positions') = NameOrder(character_positions)
       /\ call'.op = "get_visible_characters"
           => /\ ret'.names =
                     SelectSeq(NameOrder(character_positions),
                               LAMBDA n : \E i \in 1 .. Len(ret'.names) : ret'.names[i] = n)
              /\ \A i, j \in 1 .. Len(ret'.names) :
                     ret'.names[i] = ret'.names[j] => i = j]_vars

\* A query that returns both characters, Bob registered before Alice.
C27_Witness ==
    /\ QueriedRegistered
    /\ NameOrder(character_positions) = <<"Bob", "Alice">>
    /\ ret.names = <<"Bob", "Alice">>

----------------------------------------------------------------------------
\* C21: when --max-videos m is given, the videos extracted from a playlist
\* url or from a channel url are at most m.
C21_MaxVideosBounds ==
    (/\ call.op = "main"
     /\ call.max_videos.given
     /\ (call.url.playlist \/ call.url.channel))
        => Len(ret.videos) <= call.max_videos.n

----------------------------------------------------------------------------
\* k written in decimal, in three digits at least.
Digit == <<"0", "1", "2", "3", "4", "5", "6", "7", "8", "9">>

RECURSIVE Decimal(_)
Decimal(k) == IF k < 10 THEN Digit[k + 1] ELSE Decimal(k \div 10) \o Digit[(k % 10) + 1]

ThreeDigits(k) ==
    IF k < 1000
    THEN Digit[((k \div 100) % 10) + 1] \o Digit[((k \div 10) % 10) + 1]
             \o Digit[(k % 10) + 1]
    ELSE Decimal(k)

VideoCall == call.op = "generate_scene_sequence_video"

\* C28: for n >= 2 scenes generate_scene_sequence_video returns n - 1
\* results in order, the i-th (from 0) made from scenes[i] and scenes[i+1],
\* named <project>_transition_<i+1 in three digits>, with motion_prompts[i]
\* when there is one and "smooth transition" otherwise; for fewer than 2
\* scenes it returns an empty list and writes no workflow.
C28_OneVideoPerPair ==
    (VideoCall /\ ret.kind = "results") =>
        LET n == Len(call.scenes)
        IN  /\ n < 2 => (ret.results = <<>> /\ wrote.kind = "none")
            /\ n >= 2 =>
                   /\ Len(ret.results) = n - 1
                   /\ wrote.kind = "workflows"
                   /\ Len(wrote.files) = n - 1
                   /\ \A i \in 0 .. (n - 2) :
                          /\ ret.results[i + 1].video_name =
                                 call.project_name \o "_transition_" \o ThreeDigits(i + 1)
                          /\ wrote.files[i + 1].path = ret.results[i + 1].workflow_path
                          /\ wrote.files[i + 1].workflow.config.start_frame
                                 = call.scenes[i + 1]
                          /\ wrote.files[i + 1].workflow.config.end_frame
                                 = call.scenes[i + 2]
                          /\ wrote.files[i + 1].workflow.config.motion_prompt =
                                 IF i + 1 <= Len(call.motion_prompts)
                                 THEN call.motion_prompts[i + 1]
                                 ELSE "smooth transition"

\* Three scenes with one motion prompt: the first video has the prompt, the
\* second "smooth transition".
C28_Witness ==
    /\ VideoCall
    /\ ret.kind = "results"
    /\ call.scenes = <<"/tmp/outputs/intro.png", "/tmp/outputs/kiss.png",
                       "/tmp/outputs/intro.png">>
    /\ Len(call.motion_prompts) = 1
    /\ Len(ret.results) = 2
    /\ ret.results[2].video_name = "restaurant_proposal_transition_002"
    /\ wrote.files[2].workflow.config.end_frame = "/tmp/outputs/intro.png"
    /\ wrote.files[2].workflow.config.motion_prompt = "smooth transition"

----------------------------------------------------------------------------
ScenesCall == call.op = "generate_scene_sequence"

\* C29: generate_scene_sequence returns one result per scene given, in the
\* order given; the first scene is generated with previous_scene None and
\* scene k with the output_path of the result of scene k - 1.
C29_ReferencesChained ==
    (ScenesCall /\ ret.kind = "results") =>
        /\ Len(ret.results) = Len(call.scenes)
        /\ Len(call.scenes) > 0 => Len(wrote.files) = Len(call.scenes)
        /\ \A k \in 1 .. Len(call.scenes) :
               /\ ret.results[k].config.prompt = call.heap[call.scenes[k]].prompt
               /\ call.heap[call.scenes[k]].name # <<>>
                      => ret.results[k].scene_name = call.heap[call.scenes[k]].name[1]
               /\ wrote.files[k].path = ret.results[k].workflow_path
               /\ wrote.files[k].workflow.config.prompt = ret.results[k].config.prompt
               /\ wrote.files[k].workflow.references.previous_scene =
                      IF k = 1 THEN <<>> ELSE <<ret.results[k - 1].output_path>>

\* Three scenes, the first two the same dict without a name: the second is
\* generated with the first one's output, which is its own output path too.
C29_Witness ==
    /\ ScenesCall
    /\ ret.kind = "results"
    /\ call.scenes = <<1, 1, 2>>
    /\ call.heap[1].name = <<>>
    /\ call.heap[2].name = <<"kiss">>
    /\ wrote.files[1].workflow.references.previous_scene = <<>>
    /\ wrote.files[2].workflow.references.previous_scene
           = <<"/tmp/outputs/restaurant_proposal_scene_001.png">>
    /\ wrote.files[3].workflow.references.previous_scene
           = <<"/tmp/outputs/restaurant_proposal_scene_001.png">>
    /\ ret.results[3].output_path = "/tmp/outputs/kiss.png"

----------------------------------------------------------------------------
\* The level the specification gives a score, and the levels from the lowest
\* to the highest.
ExpectedLevel(score) ==
    IF score >= 90 * ScoreUnit THEN "excellent"
    ELSE IF score >= 80 * ScoreUnit THEN "good"
    ELSE IF score >= 70 * ScoreUnit THEN "acceptable"
    ELSE IF score >= 60 * ScoreUnit THEN "needs_improvement"
    ELSE "poor"

Rank(level) ==
    CHOOSE r \in 1 .. 5 :
        <<"poor", "needs_improvement", "acceptable", "good", "excellent">>[r] = level

RECURSIVE Total(_)
Total(scores) == IF scores = <<>> THEN 0 ELSE Head(scores).value + Total(Tail(scores))

\* C30: a score has the level of the highest threshold not above it, 90
\* excellent, 80 good, 70 acceptable, 60 needs_improvement, otherwise poor,
\* negative scores too; a higher score never has a lower level; assess_scene
\* scores the enabled checks, its overall_score is their mean, and 0 with
\* level poor when none is enabled.
C30_QualityLevels ==
    /\ call.op = "_get_quality_level" =>
           /\ ret.level = ExpectedLevel(call.score)
           /\ \A lower \in Scores :
                  lower <= call.score => Rank(ExpectedLevel(lower)) <= Rank(ret.level)
    /\ call.op = "assess_scene" =>
           LET a == ret.assessment
           IN  /\ Len(a.scores) = Cardinality({i \in 1 .. 4 : call.enabled[i]})
               /\ a.overall_score * Len(a.scores) = Total(a.scores)
               /\ Len(a.scores) = 0 => (a.overall_score = 0 /\ a.quality_level = "poor")
               /\ a.quality_level = ExpectedLevel(a.overall_score)
               /\ quality_scores[a.scene_name] = a

\* The test's assessment, every check enabled: 84.5, good; an assessment of
\* a scene without a name is stored too.
C30_Witness ==
    /\ call.op = "assess_scene"
    /\ \A i \in 1 .. 4 : call.enabled[i]
    /\ ret.assessment.scene_name = "test_scene"
    /\ 2 * ret.assessment.overall_score = 169 * ScoreUnit
    /\ ret.assessment.quality_level = "good"
    /\ "unknown_scene" \in DOMAIN quality_scores
    /\ quality_scores["unknown_scene"].quality_level = "poor"

====
